---------------------------- MODULE Spec2Model ----------------------------
(***************************************************************************)
(* Account REST service (service/routes.py).                               *)
(*                                                                         *)
(* The request handlers of routes.py run against one shared relational     *)
(* table of Account rows.  Every handler is modelled step by step, a step  *)
(* ending at each round trip to the store, so that requests of different   *)
(* clients interleave exactly where the code lets them: between the        *)
(* Account.find of update_account / delete_accounts and the update() or    *)
(* delete() that follows it.                                               *)
(*                                                                         *)
(* The Account entity (service/models.py) and the error handlers           *)
(* (service/common/error_handlers.py) are not part of the sources at hand; *)
(* they are modelled from the written specification of the service.        *)
(***************************************************************************)
EXTENDS Integers, Sequences, FiniteSets, TLC

\* Number of rows the store ever assigns an id to (cap on successful creates).
MaxId == 2

\* Requests in flight at the same time.
Clients == {"c1", "c2"}

VARIABLES
    store,       \* the Account table: id -> row
    nextId,      \* the id the store assigns to the next inserted row
    pc,          \* per client: position of its request in its handler
    account_id,  \* per client: <int:account_id> of the request in flight
    entity,      \* per client: the Account instance the handler holds
    last,        \* the request completed last and its HTTP response
    submitted,   \* history: id -> the fields of the payload accepted last for it
    deleted,     \* history: ids whose row a DELETE request removed
    creates      \* history: number of 201 responses so far

vars == <<store, nextId, pc, account_id, entity, last, submitted, deleted, creates>>

-----------------------------------------------------------------------------
(* JSON payloads *)

None == "None"

\* A JSON value that is not a string (a number, a list, ...).
NonString == "<non-string>"

RequiredKeys == {"name", "email", "address"}
FieldKeys == {"name", "email", "address", "phone_number", "date_joined"}
FieldOrder == <<"name", "email", "address", "phone_number", "date_joined">>

\* The clock of date.today().
Today == <<2026, 11, 1>>

\* date.fromisoformat: the parsed date, or <<>> when the text is no ISO date.
ParseDate(s) ==
    CASE s = "2020-01-01" -> <<2020, 1, 1>>
      [] s = "2021-12-31" -> <<2021, 12, 31>>
      [] s = "2026-11-01" -> <<2026, 11, 1>>
      [] OTHER -> <<>>

Pad(n, w) ==
    CASE n = 1 -> IF w = 2 THEN "01" ELSE "0001"
      [] n = 11 -> IF w = 2 THEN "11" ELSE "0011"
      [] n = 12 -> IF w = 2 THEN "12" ELSE "0012"
      [] n = 31 -> IF w = 2 THEN "31" ELSE "0031"
      [] n = 2020 -> "2020"
      [] n = 2021 -> "2021"
      [] n = 2026 -> "2026"
      [] OTHER -> None

\* date.isoformat: YYYY-MM-DD, as the triple of its zero-padded parts joined.
IsoFormat(d) ==
    LET y == IF d = <<>> THEN None ELSE Pad(d[1], 4)
        m == IF d = <<>> THEN None ELSE Pad(d[2], 2)
        dd == IF d = <<>> THEN None ELSE Pad(d[3], 2)
    IN CASE <<y, m, dd>> = <<"2020", "01", "01">> -> "2020-01-01"
         [] <<y, m, dd>> = <<"2021", "12", "31">> -> "2021-12-31"
         [] <<y, m, dd>> = <<"2026", "11", "01">> -> "2026-11-01"
         [] OTHER -> None

\* The value version v of a payload gives to key k.
Val(k, v) ==
    CASE k = "name" -> IF v = 1 THEN "Joe" ELSE "Ann"
      [] k = "email" -> IF v = 1 THEN "joe@x.com" ELSE "ann@y.org"
      [] k = "address" -> IF v = 1 THEN "1 Main St" ELSE "2 Side Rd"
      [] k = "phone_number" -> IF v = 1 THEN "555-1212" ELSE "555-3434"
      [] k = "date_joined" -> IF v = 1 THEN "2020-01-01" ELSE "2021-12-31"
      [] k = "id" -> IF v = 1 THEN "41" ELSE "42"

Payload(v, ks) == [k \in ks |-> Val(k, v)]

\* Payloads deserialize accepts: one with every field, one with the required
\* fields only and an id of its own.
ValidBodies == { Payload(1, FieldKeys), Payload(2, RequiredKeys \cup {"id"}) }

\* Payloads lacking one required key.
IncompleteBodies == { Payload(2, FieldKeys \ {k}) : k \in RequiredKeys }

\* Payloads with a value of the wrong type or a date that does not parse.
InvalidBodies ==
    { [Payload(2, FieldKeys) EXCEPT ![k] = NonString] : k \in {"name", "phone_number"} }
    \cup { [Payload(2, FieldKeys) EXCEPT !["date_joined"] = "2020-13-01"] }

\* What request.get_json() yields for an absent or malformed body: no JSON object.
NoData == [k \in {"<no json object>"} |-> None]

\* request.get_json(): a JSON object, or no object at all.
Bodies == ValidBodies \cup IncompleteBodies \cup InvalidBodies \cup {NoData}

\* The Content-Type header of a request; None when the header is missing.
ContentTypes ==
    {None, "application/json", "text/html", "application/json; charset=utf-8"}

\* <int:account_id>: 0 is never assigned, the others may or may not be stored.
PathIds == 0 .. MaxId

-----------------------------------------------------------------------------
(* The Account entity *)

\* Account(): an instance with no id and no field set.
NewAccount ==
    [id |-> 0, name |-> None, email |-> None, address |-> None,
     phone_number |-> None, date_joined |-> <<>>]

DataValidationError(acct, text) == [ok |-> FALSE, account |-> acct, message |-> text]

Assigned(acct) == [ok |-> TRUE, account |-> acct, message |-> ""]

\* One assignment of deserialize: self.<k> = data[k], or the validation error.
Assign(acct, k, data) ==
    IF k \in RequiredKeys
    THEN IF k \notin DOMAIN data
         THEN DataValidationError(acct, "Invalid Account: missing")
         ELSE IF data[k] = NonString
              THEN DataValidationError(acct, "Invalid Account: bad type")
              ELSE Assigned([acct EXCEPT ![k] = data[k]])
    ELSE IF k = "phone_number"
    THEN IF k \notin DOMAIN data
         THEN Assigned([acct EXCEPT ![k] = None])
         ELSE IF data[k] = NonString
              THEN DataValidationError(acct, "Invalid Account: bad type")
              ELSE Assigned([acct EXCEPT ![k] = data[k]])
    ELSE IF k \notin DOMAIN data
         THEN Assigned([acct EXCEPT ![k] = Today])
         ELSE IF ParseDate(data[k]) = <<>>
              THEN DataValidationError(acct, "Invalid Account: bad date")
              ELSE Assigned([acct EXCEPT ![k] = ParseDate(data[k])])

RECURSIVE DeserializeFrom(_, _, _)
DeserializeFrom(acct, data, i) ==
    IF i > Len(FieldOrder)
    THEN Assigned(acct)
    ELSE LET step == Assign(acct, FieldOrder[i], data)
         IN IF step.ok
            THEN DeserializeFrom(step.account, data, i + 1)
            ELSE step

\* Account.deserialize(data): assigns the fields of self one after the other, in
\* place, and raises DataValidationError at the first key that is missing or
\* invalid; the fields assigned before it keep their new values.  Never
\* touches id.
deserialize(acct, data) ==
    IF data = NoData
    THEN DataValidationError(acct, "Invalid Account: bad or no data")
    ELSE DeserializeFrom(acct, data, 1)

\* Account.serialize(): the JSON representation, date_joined as an ISO string.
serialize(acct) ==
    [id |-> acct.id, name |-> acct.name, email |-> acct.email,
     address |-> acct.address, phone_number |-> acct.phone_number,
     date_joined |-> IsoFormat(acct.date_joined)]

\* Account.find(id): the row with that primary key, or None.
Found(id) == id \in DOMAIN store

find(id) == store[id]

\* Account.create(): inserts the entity as a new row under the id the store assigns.
create(acct) == store @@ (nextId :> [acct EXCEPT !.id = nextId])

\* Account.update(): fails when the entity has no id or its row is gone.
UpdateFails(acct) == acct.id = 0 \/ acct.id \notin DOMAIN store

update(acct) == [store EXCEPT ![acct.id] = acct]

\* Account.delete(): removes the row with the entity's id; no error without one.
delete(acct) == [i \in DOMAIN store \ {acct.id} |-> store[i]]

\* Account.all(): every row, in an order the store chooses.
all ==
    { s \in [1 .. Cardinality(DOMAIN store) -> DOMAIN store] :
          \A i, j \in DOMAIN s : i # j => s[i] # s[j] }

-----------------------------------------------------------------------------
(* HTTP responses *)

\* The response of a completed request.  body holds the accounts of the JSON
\* response: the entries of an array, the one object of an object response,
\* nothing otherwise; message is the text of an error response.  calls are the
\* Account methods the handler invoked.
Response(op, id, status, body, message, calls) ==
    [op |-> op, id |-> id, status |-> status, body |-> body,
     message |-> message, calls |-> calls]

NoResponse == Response(None, 0, 0, <<>>, "", {})

\* The fields a payload submits, without its id.
Fields(data) == [k \in DOMAIN data \cap FieldKeys |-> data[k]]

Forget(f, id) == [i \in DOMAIN f \ {id} |-> f[i]]

Record(f, id, v) == [i \in DOMAIN f \cup {id} |-> IF i = id THEN v ELSE f[i]]

Init ==
    /\ store = <<>>
    /\ nextId = 1
    /\ pc = [c \in Clients |-> "idle"]
    /\ account_id = [c \in Clients |-> 0]
    /\ entity = [c \in Clients |-> NewAccount]
    /\ last = NoResponse
    /\ submitted = <<>>
    /\ deleted = {}
    /\ creates = 0

-----------------------------------------------------------------------------
(* Request handlers *)

NotFound == "Account not found"

\* check_content_type with the test for a missing header dropped.
check_content_type_unset_passes(header_type, media_type) ==
    header_type = None \/ header_type = media_type

\* check_content_type(media_type): passes only for a header that is present and
\* equal to media_type.
check_content_type(header_type, media_type) ==
    header_type # None /\ header_type = media_type

UnsupportedMediaType == "Content-Type must be application/json"

\* create_accounts going on to create() after a failed deserialize.
create_accounts_unvalidated(c, header_type, data) ==
    /\ pc[c] = "idle"
    /\ IF ~check_content_type(header_type, "application/json")
       THEN /\ last' = Response("create", 0, 415, <<>>,
                                UnsupportedMediaType, {})
            /\ UNCHANGED <<store, nextId, submitted, creates>>
       ELSE LET parsed == deserialize(NewAccount, data)
            IN /\ nextId <= MaxId
               /\ store' = create(parsed.account)
               /\ nextId' = nextId + 1
               /\ last' = Response("create", nextId, 201,
                                   <<serialize(store'[nextId])>>, "",
                                   {"deserialize", "create", "serialize"})
               /\ submitted' = Record(submitted, nextId, Fields(data))
               /\ creates' = creates + 1
    /\ UNCHANGED <<pc, account_id, entity, deleted>>

\* POST /accounts
create_accounts(c, header_type, data) ==
    /\ pc[c] = "idle"
    /\ IF ~check_content_type(header_type, "application/json")
       THEN /\ last' = Response("create", 0, 415, <<>>,
                                UnsupportedMediaType, {})
            /\ UNCHANGED <<store, nextId, submitted, creates>>
       ELSE LET parsed == deserialize(NewAccount, data)
            IN IF ~parsed.ok
               THEN /\ last' = Response("create", 0, 400, <<>>, parsed.message,
                                        {"deserialize"})
                    /\ UNCHANGED <<store, nextId, submitted, creates>>
               ELSE /\ nextId <= MaxId
                    /\ store' = create(parsed.account)
                    /\ nextId' = nextId + 1
                    /\ LET message == serialize(store'[nextId])
                       IN /\ last' = Response("create", message.id, 201,
                                              <<message>>, "",
                                              {"deserialize", "create", "serialize"})
                          /\ submitted' = Record(submitted, message.id, Fields(data))
                    /\ creates' = creates + 1
    /\ UNCHANGED <<pc, account_id, entity, deleted>>

\* list_accounts leaving out the last of the rows.
list_accounts_short(c) ==
    /\ pc[c] = "idle"
    /\ \E all_accounts \in all :
           last' = Response("list", 0, 200,
                            [i \in 1 .. Len(all_accounts) - 1 |->
                                 serialize(find(all_accounts[i]))],
                            "", {"all", "serialize"})
    /\ UNCHANGED <<store, nextId, pc, account_id, entity, submitted, deleted, creates>>

\* GET /accounts
list_accounts(c) ==
    /\ pc[c] = "idle"
    /\ \E all_accounts \in all :
           last' = Response("list", 0, 200,
                            [i \in DOMAIN all_accounts |->
                                 serialize(find(all_accounts[i]))],
                            "", {"all", "serialize"})
    /\ UNCHANGED <<store, nextId, pc, account_id, entity, submitted, deleted, creates>>

\* get_accounts answering with the first row of the table instead of the row found.
get_accounts_first_row(c, id) ==
    /\ pc[c] = "idle"
    /\ IF ~Found(id)
       THEN last' = Response("read", id, 404, <<>>, NotFound, {"find"})
       ELSE last' = Response("read", id, 200,
                             <<serialize(find(CHOOSE i \in DOMAIN store :
                                   \A j \in DOMAIN store : i <= j))>>,
                             "", {"find", "serialize"})
    /\ UNCHANGED <<store, nextId, pc, account_id, entity, submitted, deleted, creates>>

\* GET /accounts/<account_id>
get_accounts(c, id) ==
    /\ pc[c] = "idle"
    /\ IF ~Found(id)
       THEN last' = Response("read", id, 404, <<>>, NotFound, {"find"})
       ELSE last' = Response("read", id, 200, <<serialize(find(id))>>, "",
                             {"find", "serialize"})
    /\ UNCHANGED <<store, nextId, pc, account_id, entity, submitted, deleted, creates>>

\* update_account_find without the abort: a missing row goes on to the update.
update_account_find_no_abort(c, id) ==
    /\ pc[c] = "idle"
    /\ pc' = [pc EXCEPT ![c] = "update_found"]
    /\ account_id' = [account_id EXCEPT ![c] = id]
    /\ entity' = [entity EXCEPT ![c] = IF Found(id) THEN find(id) ELSE NewAccount]
    /\ UNCHANGED <<store, nextId, last, submitted, deleted, creates>>

\* PUT /accounts/<account_id>, up to the lookup: Account.find and the 404.
update_account_find(c, id) ==
    /\ pc[c] = "idle"
    /\ IF ~Found(id)
       THEN /\ last' = Response("update", id, 404, <<>>, NotFound, {"find"})
            /\ UNCHANGED <<pc, account_id, entity>>
       ELSE /\ pc' = [pc EXCEPT ![c] = "update_found"]
            /\ account_id' = [account_id EXCEPT ![c] = id]
            /\ entity' = [entity EXCEPT ![c] = find(id)]
            /\ UNCHANGED last
    /\ UNCHANGED <<store, nextId, submitted, deleted, creates>>

\* The end of every request of update_account: the entity goes with it.
EndUpdate(c) ==
    /\ pc' = [pc EXCEPT ![c] = "idle"]
    /\ account_id' = [account_id EXCEPT ![c] = 0]
    /\ entity' = [entity EXCEPT ![c] = NewAccount]
    /\ UNCHANGED <<nextId, deleted, creates>>

StoreError == "Internal Server Error"

\* update_account without the call of update().
update_account_unsaved(c, data) ==
    /\ pc[c] = "update_found"
    /\ LET id == account_id[c]
           parsed == deserialize(entity[c], data)
       IN IF ~parsed.ok
          THEN /\ last' = Response("update", id, 400, <<>>, parsed.message,
                                   {"find", "deserialize"})
               /\ UNCHANGED <<store, submitted>>
          ELSE /\ last' = Response("update", id, 200,
                                   <<serialize(parsed.account)>>, "",
                                   {"find", "deserialize", "serialize"})
               /\ submitted' = Record(submitted, id, Fields(data))
               /\ UNCHANGED store
    /\ EndUpdate(c)

\* update_account saving the entity although deserialize failed.
update_account_saves_invalid(c, data) ==
    /\ pc[c] = "update_found"
    /\ LET id == account_id[c]
           parsed == deserialize(entity[c], data)
       IN IF UpdateFails(parsed.account)
          THEN /\ last' = Response("update", id, 500, <<>>, StoreError,
                                   {"find", "deserialize", "update"})
               /\ UNCHANGED <<store, submitted>>
          ELSE IF ~parsed.ok
               THEN /\ store' = update(parsed.account)
                    /\ last' = Response("update", id, 400, <<>>, parsed.message,
                                        {"find", "deserialize", "update"})
                    /\ UNCHANGED submitted
               ELSE /\ store' = update(parsed.account)
                    /\ last' = Response("update", id, 200,
                                        <<serialize(parsed.account)>>, "",
                                        {"find", "deserialize", "update", "serialize"})
                    /\ submitted' = Record(submitted, id, Fields(data))
    /\ EndUpdate(c)

\* update_account catching the failure of update() and answering 200.
update_account_ignores_failure(c, data) ==
    /\ pc[c] = "update_found"
    /\ LET id == account_id[c]
           parsed == deserialize(entity[c], data)
       IN IF ~parsed.ok
          THEN /\ last' = Response("update", id, 400, <<>>, parsed.message,
                                   {"find", "deserialize"})
               /\ UNCHANGED <<store, submitted>>
          ELSE /\ store' = IF UpdateFails(parsed.account)
                           THEN store
                           ELSE update(parsed.account)
               /\ last' = Response("update", id, 200,
                                   <<serialize(parsed.account)>>, "",
                                   {"find", "deserialize", "update", "serialize"})
               /\ submitted' = IF UpdateFails(parsed.account)
                               THEN submitted
                               ELSE Record(submitted, id, Fields(data))
    /\ EndUpdate(c)

\* PUT /accounts/<account_id>, after the lookup: deserialize over the entity
\* found, update(), serialize.  A DataValidationError answers 400; a failure of
\* update() is not handled and answers 500.  Either way the entity, with what
\* deserialize assigned to it, goes with the request.
update_account(c, data) ==
    /\ pc[c] = "update_found"
    /\ LET id == account_id[c]
           parsed == deserialize(entity[c], data)
       IN IF ~parsed.ok
          THEN /\ last' = Response("update", id, 400, <<>>, parsed.message,
                                   {"find", "deserialize"})
               /\ UNCHANGED <<store, submitted>>
          ELSE IF UpdateFails(parsed.account)
               THEN /\ last' = Response("update", id, 500, <<>>, StoreError,
                                        {"find", "deserialize", "update"})
                    /\ UNCHANGED <<store, submitted>>
               ELSE /\ store' = update(parsed.account)
                    /\ last' = Response("update", id, 200,
                                        <<serialize(parsed.account)>>, "",
                                        {"find", "deserialize", "update", "serialize"})
                    /\ submitted' = Record(submitted, id, Fields(data))
    /\ EndUpdate(c)

\* delete_accounts_find answering 404 for a missing row.
delete_accounts_find_aborts(c, id) ==
    /\ pc[c] = "idle"
    /\ IF ~Found(id)
       THEN /\ last' = Response("delete", id, 404, <<>>, NotFound, {"find"})
            /\ UNCHANGED <<pc, account_id, entity>>
       ELSE /\ pc' = [pc EXCEPT ![c] = "delete_found"]
            /\ account_id' = [account_id EXCEPT ![c] = id]
            /\ entity' = [entity EXCEPT ![c] = find(id)]
            /\ UNCHANGED last
    /\ UNCHANGED <<store, nextId, submitted, deleted, creates>>

\* DELETE /accounts/<account_id>, up to the lookup: 204 at once without a row.
delete_accounts_find(c, id) ==
    /\ pc[c] = "idle"
    /\ IF ~Found(id)
       THEN /\ last' = Response("delete", id, 204, <<>>, "", {"find"})
            /\ UNCHANGED <<pc, account_id, entity>>
       ELSE /\ pc' = [pc EXCEPT ![c] = "delete_found"]
            /\ account_id' = [account_id EXCEPT ![c] = id]
            /\ entity' = [entity EXCEPT ![c] = find(id)]
            /\ UNCHANGED last
    /\ UNCHANGED <<store, nextId, submitted, deleted, creates>>

\* delete_accounts without the call of target.delete().
delete_accounts_unsaved(c) ==
    /\ pc[c] = "delete_found"
    /\ LET id == account_id[c]
       IN /\ last' = Response("delete", id, 204, <<>>, "", {"find"})
          /\ submitted' = Forget(submitted, id)
          /\ deleted' = IF Found(id) THEN deleted \cup {id} ELSE deleted
    /\ pc' = [pc EXCEPT ![c] = "idle"]
    /\ account_id' = [account_id EXCEPT ![c] = 0]
    /\ entity' = [entity EXCEPT ![c] = NewAccount]
    /\ UNCHANGED <<store, nextId, creates>>

\* DELETE /accounts/<account_id>, after the lookup: target.delete() and 204.
delete_accounts(c) ==
    /\ pc[c] = "delete_found"
    /\ LET id == account_id[c]
       IN /\ store' = delete(entity[c])
          /\ last' = Response("delete", id, 204, <<>>, "", {"find", "delete"})
          /\ submitted' = Forget(submitted, id)
          /\ deleted' = IF Found(id) THEN deleted \cup {id} ELSE deleted
    /\ pc' = [pc EXCEPT ![c] = "idle"]
    /\ account_id' = [account_id EXCEPT ![c] = 0]
    /\ entity' = [entity EXCEPT ![c] = NewAccount]
    /\ UNCHANGED <<nextId, creates>>

Next ==
    \/ \E c \in Clients, header_type \in ContentTypes, data \in Bodies :
           create_accounts(c, header_type, data)
    \/ \E c \in Clients : list_accounts(c)
    \/ \E c \in Clients, id \in PathIds : get_accounts(c, id)
    \/ \E c \in Clients, id \in PathIds : update_account_find(c, id)
    \/ \E c \in Clients, data \in Bodies : update_account(c, data)
    \/ \E c \in Clients, id \in PathIds : delete_accounts_find(c, id)
    \/ \E c \in Clients : delete_accounts(c)

Spec == Init /\ [][Next]_vars

-----------------------------------------------------------------------------
(* Properties *)

\* C1: a POST /accounts whose Content-Type header is missing or is not exactly
\* application/json is answered 415 whatever its body is; neither deserialize
\* nor create is called and the table stays as it was.
C1_UnsupportedMediaType ==
    [][\A c \in Clients, header_type \in ContentTypes, data \in Bodies :
           (header_type # "application/json" /\ create_accounts(c, header_type, data))
               => /\ last'.op = "create"
                  /\ last'.status = 415
                  /\ last'.calls = {}
                  /\ store' = store
                  /\ nextId' = nextId]_vars

\* A create was answered 415 while accounts are stored.
C1_Witness ==
    /\ last.op = "create"
    /\ last.status = 415
    /\ store # <<>>

\* C2: a POST /accounts with Content-Type application/json whose body lacks one
\* of the keys name, email, address is answered 400 and persists nothing.
C2_BadRequest ==
    [][\A c \in Clients, data \in Bodies :
           (~(RequiredKeys \subseteq DOMAIN data)
                /\ create_accounts(c, "application/json", data))
               => /\ last'.op = "create"
                  /\ last'.status = 400
                  /\ store' = store
                  /\ nextId' = nextId]_vars

\* A create was answered 400 for a missing key while accounts are stored.
C2_Witness ==
    /\ last.op = "create"
    /\ last.status = 400
    /\ last.message = "Invalid Account: missing"
    /\ store # <<>>

\* The fields of a serialized account that a payload submitted, equal to it.
SameFields(message, fields) == \A k \in DOMAIN fields : message[k] = fields[k]

\* C3: the 201 of a create carries the id of the new account, and a GET of an
\* id whose account no delete removed is answered 200 with, in every field the
\* payload accepted last for that id submitted, the value submitted (the payload
\* of the create, as long as no update replaced it).
C3_CreateThenRead ==
    /\ (last.op = "create" /\ last.status = 201)
           => /\ last.body[1].id = last.id
              /\ last.id \in DOMAIN submitted
              /\ last.id \in DOMAIN store
              /\ SameFields(last.body[1], submitted[last.id])
    /\ (last.op = "read" /\ last.id \in DOMAIN submitted)
           => /\ last.status = 200
              /\ last.body[1].id = last.id
              /\ SameFields(last.body[1], submitted[last.id])

\* The second account, created with every field, was read back.
C3_Witness ==
    /\ last.op = "read"
    /\ last.status = 200
    /\ last.id = 2
    /\ creates = 2
    /\ DOMAIN submitted[last.id] = FieldKeys
    /\ 1 \in DOMAIN store
    /\ store[1].name # store[2].name

\* C4: GET /accounts is answered 200 with one entry per stored account: none for
\* an empty table, and as many as creates succeeded while no delete removed one.
C4_ListAll ==
    last.op = "list"
        => /\ last.status = 200
           /\ Len(last.body) = Cardinality(DOMAIN store)
           /\ { last.body[i].id : i \in DOMAIN last.body } = DOMAIN store
           /\ \A i \in DOMAIN last.body : last.body[i] = serialize(store[last.body[i].id])
           /\ store = <<>> => last.body = <<>>
           /\ deleted = {} => Len(last.body) = creates

\* Two accounts were created, none deleted, and the list has two entries.
C4_Witness ==
    /\ last.op = "list"
    /\ creates = 2
    /\ deleted = {}
    /\ Len(last.body) = 2

\* C5: for an id without a stored account GET and PUT are answered 404; the PUT
\* ends there, without deserialize, and the table stays as it was.
C5_NotFound ==
    [][\A c \in Clients, id \in PathIds :
           ~Found(id)
               => /\ get_accounts(c, id)
                      => /\ last'.op = "read"
                         /\ last'.status = 404
                         /\ store' = store
                  /\ update_account_find(c, id)
                      => /\ last'.op = "update"
                         /\ last'.status = 404
                         /\ "deserialize" \notin last'.calls
                         /\ pc'[c] = "idle"
                         /\ store' = store]_vars

\* A PUT to the id of a deleted account was answered 404.
C5_Witness ==
    /\ last.op = "update"
    /\ last.status = 404
    /\ last.id \in deleted
    /\ store # <<>>

\* The rows other than id are the same before and after the step.
OthersUnchanged(id) ==
    \A j \in DOMAIN store \ {id} : j \in DOMAIN store' /\ store'[j] = store[j]

\* The update step of C6: a PUT with a valid body to an account that is stored when update() runs
\* is answered 200 with the serialized updated account: the values of the body
\* under the id of the path, also when the body carries another id; the row
\* holds them afterwards and a GET of the id returns them.
C6_UpdateStep ==
    \A c \in Clients, data \in ValidBodies :
        (Found(account_id[c]) /\ update_account(c, data))
            => /\ last'.op = "update"
               /\ last'.status = 200
               /\ last'.id = account_id[c]
               /\ last'.body[1].id = account_id[c]
               /\ SameFields(last'.body[1], Fields(data))
               /\ DOMAIN store' = DOMAIN store
               /\ last'.body[1] = serialize(store'[account_id[c]])
               /\ OthersUnchanged(account_id[c])

C6_ReadBack ==
    (last.op = "read" /\ last.status = 200)
        => /\ last.id \in DOMAIN submitted
           /\ last.id \in DOMAIN store
           /\ last.body[1] = serialize(store[last.id])
           /\ SameFields(last.body[1], submitted[last.id])

\* C6: every update step answers 200 with the new values under the id of the
\* path and stores them, and every GET answered 200 returns the stored row with
\* the values accepted last.
C6_Update == [][C6_UpdateStep]_vars /\ []C6_ReadBack

\* An account created with every field was updated by a body with an id of its
\* own and answers with the new values under its old id.
C6_Witness ==
    /\ last.op = "update"
    /\ last.status = 200
    /\ creates = 1
    /\ last.id = 1
    /\ last.body[1].name = "Ann"
    /\ last.body[1].phone_number = None
    /\ store[1].id = 1

\* The delete steps of C7: a DELETE of a stored account goes on to delete() and is answered 204 with
\* an empty body; the row is gone, the other rows are as they were, and from
\* then on the id has no row and every GET of it is answered 404.
C7_DeleteStep ==
    \A c \in Clients :
        /\ \A id \in PathIds :
               (Found(id) /\ delete_accounts_find(c, id))
                   => pc'[c] = "delete_found" /\ account_id'[c] = id
        /\ delete_accounts(c)
               => /\ last'.op = "delete"
                  /\ last'.status = 204
                  /\ last'.body = <<>>
                  /\ last'.message = ""
                  /\ account_id[c] \notin DOMAIN store'
                  /\ Found(account_id[c]) => account_id[c] \in deleted'
                  /\ OthersUnchanged(account_id[c])

C7_StaysAbsent ==
    /\ \A id \in deleted : id \notin DOMAIN store
    /\ (last.op = "read" /\ last.id \in deleted) => last.status = 404

\* C7: every delete step answers 204, removes its row and no other, and a
\* deleted id stays without a row, every GET of it answered 404.
C7_Delete == [][C7_DeleteStep]_vars /\ []C7_StaysAbsent

\* A GET of the id of a deleted account was answered 404 while another account
\* is still stored.
C7_Witness ==
    /\ last.op = "read"
    /\ last.status = 404
    /\ last.id \in deleted
    /\ store # <<>>

\* C8: a DELETE of an id without a stored account, never created or deleted
\* before, is answered 204 without a call of delete() and leaves the table as
\* it was.
C8_DeleteAbsent ==
    [][\A c \in Clients, id \in PathIds :
           (~Found(id) /\ delete_accounts_find(c, id))
               => /\ last'.op = "delete"
                  /\ last'.status = 204
                  /\ last'.body = <<>>
                  /\ "delete" \notin last'.calls
                  /\ pc'[c] = "idle"
                  /\ store' = store]_vars

\* A second DELETE of a deleted id was answered 204 without a call of delete().
C8_Witness ==
    /\ last.op = "delete"
    /\ last.status = 204
    /\ "delete" \notin last.calls
    /\ last.id \in deleted
    /\ store # <<>>

\* C9: a PUT whose body deserialize rejects is answered 400 without a call of
\* update(); the table is as it was, whatever deserialize had assigned to the
\* entity before it failed.
C9_UpdateBadRequest ==
    [][\A c \in Clients, data \in Bodies \ ValidBodies :
           update_account(c, data)
               => /\ last'.op = "update"
                  /\ last'.status = 400
                  /\ "update" \notin last'.calls
                  /\ store' = store
                  /\ submitted' = submitted]_vars

\* A PUT failed at date_joined, the last field, after deserialize had assigned
\* the other fields of a stored account that holds other values.
C9_Witness ==
    /\ last.op = "update"
    /\ last.status = 400
    /\ last.message = "Invalid Account: bad date"
    /\ last.id \in DOMAIN store
    /\ store[last.id].name = "Joe"

\* C10: a PUT whose row a DELETE removed between its find and its update() does
\* not answer 200 but an error, and the row is not back in the table.
C10_UpdateAfterDelete ==
    [][\A c \in Clients, data \in Bodies :
           (~Found(account_id[c]) /\ update_account(c, data))
               => /\ last'.op = "update"
                  /\ last'.status \in {400, 500}
                  /\ account_id[c] \notin DOMAIN store'
                  /\ store' = store]_vars

\* update() failed for a PUT to an account deleted after the PUT had found it.
C10_Witness ==
    /\ last.op = "update"
    /\ last.status = 500
    /\ "update" \in last.calls
    /\ last.id \in deleted

=============================================================================
